---- MODULE Spec2Model ----
(***************************************************************************)
(* A model of lib_bloat.py: one run of main(args).  The external tools     *)
(* (bloaty, llvm-nm) are the environment: tool_result gives, for every     *)
(* command line, the exit code and the standard output the tool produces.  *)
(* Strings the program inspects are sequences of one-character strings; a  *)
(* tool's output is the sequence of its lines (the text split at newlines).*)
(***************************************************************************)
EXTENDS Integers, Sequences, FiniteSets, TLC

VARIABLES args, tool_result, pc, err, tool_output_cache, spawned,
          sym_sizes, linked_sym_size, data_sym_count, data_sym_size,
          sizes, libs_size_sum, deduped_size, out

vars == <<args, tool_result, pc, err, tool_output_cache, spawned,
          sym_sizes, linked_sym_size, data_sym_count, data_sym_size,
          sizes, libs_size_sum, deduped_size, out>>

(* ---------------------------- bounds ---------------------------------- *)

\* largest number of unit arguments on the command line
MaxUnits == 2

\* largest number of lines in the enumerated symbol-dump listings
MaxLines == 2

(* ---------------------------- strings --------------------------------- *)

StartsWith(s, p) == Len(s) >= Len(p) /\ SubSeq(s, 1, Len(p)) = p

EndsWith(s, p) == Len(s) >= Len(p) /\ SubSeq(s, Len(s) - Len(p) + 1, Len(s)) = p

RemovePrefix(s, p) == IF StartsWith(s, p) THEN SubSeq(s, Len(p) + 1, Len(s)) ELSE s

LowerChar(c) ==
    CASE c = "T" -> "t" [] c = "W" -> "w" [] c = "D" -> "d" [] c = "U" -> "u"
      [] c = "L" -> "l" [] OTHER -> c

Lower(s) == [k \in DOMAIN s |-> LowerChar(s[k])]

DigitChars == <<"0", "1", "2", "3", "4", "5", "6", "7", "8", "9">>

IsDigit(c) == \E k \in 1..10 : DigitChars[k] = c

DigitVal(c) == (CHOOSE k \in 1..10 : DigitChars[k] = c) - 1

\* int(s) raises ValueError unless s is a non-empty string of digits
IntOk(s) == Len(s) > 0 /\ \A k \in DOMAIN s : IsDigit(s[k])

RECURSIVE IntOf(_)
IntOf(s) ==
    IF Len(s) = 0 THEN 0
    ELSE 10 * IntOf(SubSeq(s, 1, Len(s) - 1)) + DigitVal(s[Len(s)])

\* the decimal text of a number, as the size-report tool writes it
RECURSIVE Decimal(_)
Decimal(n) ==
    IF n < 10 THEN <<DigitChars[n + 1]>>
    ELSE Append(Decimal(n \div 10), DigitChars[(n % 10) + 1])

P_rodata == <<".", "r", "o", "d", "a", "t", "a">>
P_data == <<".", "d", "a", "t", "a">>
P_tdata == <<".", "t", "d", "a", "t", "a">>
P_rodata_dot == P_rodata \o <<".">>
P_data_dot == P_data \o <<".">>
P_dotL == <<".", "L">>
P_section == <<"[", "s", "e", "c", "t", "i", "o", "n">>
P_wasm_header == <<"[", "W", "A", "S", "M", " ", "H", "e", "a", "d", "e", "r">>
S_filesize == <<"f", "i", "l", "e", "s", "i", "z", "e">>


(* ---------------------------- inputs ---------------------------------- *)

N_foo == <<"f", "o", "o">>
N_bar == <<"b", "a", "r">>
N_qux == <<"q", "u", "x">>
N_baz == <<"b", "a", "z">>
N_Lstr == <<".", "L", "s", "t", "r">>
N_ext == <<"e", "x", "t">>
N_name == <<"n", "a", "m", "e">>
N_vmsize == <<"v", "m", "s", "i", "z", "e">>
N_text_section == P_section \o <<" ", ".", "t", "e", "x", "t", "]">>
N_addr == <<"0", "0", "0", "1">>

\* the unit paths and the linked artifact's path
Units == {"a", "b"}
Wasm == "w"
Paths == Units \cup {Wasm}

\* a command line is the tool and the path it is given; lines 47-48 and 76
BloatyCmd(wasm) == <<"bloaty", wasm>>
NmCmd(lib) == <<"llvm-nm", lib>>
Cmds == {BloatyCmd(p) : p \in Paths} \cup {NmCmd(p) : p \in Paths}

\* a size-report row "name,vmsize,filesize"
Row(name, vmsize, filesize) ==
    name \o <<",">> \o Decimal(vmsize) \o <<",">> \o Decimal(filesize)
HeaderRow == N_name \o <<",">> \o N_vmsize \o <<",">> \o S_filesize
EmptyLine == <<>>

\* the size reports the linked artifact may have
TableEmpty == <<HeaderRow, EmptyLine>>
TableA == <<HeaderRow, Row(N_text_section, 170, 170), Row(N_foo, 120, 100),
            Row(N_bar, 50, 50), Row(P_rodata_dot \o N_baz, 20, 20), EmptyLine>>
TableB == <<HeaderRow, Row(N_foo, 100, 100), Row(N_qux, 10, 10),
            Row(P_data_dot \o N_baz, 20, 20), Row(P_rodata_dot \o N_Lstr, 5, 5),
            EmptyLine>>
TableMerged == <<HeaderRow, Row(N_foo, 100, 100), Row(P_data, 100, 100),
                 Row(P_data_dot \o N_baz, 20, 20), Row(N_foo, 30, 30), EmptyLine>>
TableFuncs == <<HeaderRow, Row(N_foo, 100, 100), Row(N_qux, 10, 10), EmptyLine>>
TableMalformed == <<HeaderRow, Row(N_foo, 100, 100), N_bar \o <<",">> \o Decimal(50), EmptyLine>>
Tables == {TableEmpty, TableA, TableB, TableMerged, TableFuncs, TableMalformed}

\* symbol-dump lines "address type name"
NmLine(symtype, name) == N_addr \o <<" ", symtype, " ">> \o name
UndefLine == <<" ", " ", " ", " ", " ", "U", " ">> \o N_ext
NmLinePool == {NmLine("T", N_foo), NmLine("W", N_foo), NmLine("w", N_qux),
               NmLine("D", N_baz), NmLine("d", P_data)}

SeqsUpTo(S, n) == UNION {[1..k -> S] : k \in 0..n}

\* listings of unit a: every listing of at most MaxLines pool lines
ListingsA == SeqsUpTo(NmLinePool, MaxLines)

\* listings of unit b: a few listings that share names with unit a
ListingsB == { <<NmLine("w", N_qux), EmptyLine>>,
               <<UndefLine, NmLine("t", N_foo), NmLine("d", N_Lstr)>>,
               <<NmLine("D", N_baz), NmLine("W", N_qux), NmLine("T", N_bar)>>,
               <<NmLine("T", N_foo), NmLine("w", N_qux)>> }

Ok(text) == [returncode |-> 0, stdout |-> text]
Failed == [returncode |-> 1, stdout |-> <<>>]

UnitSeqs == SeqsUpTo(Units, MaxUnits)
ArgLists == {<<>>} \cup {Append(u, Wasm) : u \in UnitSeqs}

Range(s) == {s[k] : k \in DOMAIN s}

\* the units in a fixed order
UnitOrder == <<"a", "b">>


(* ---------------------------- splitting ------------------------------- *)

IndexOf(s, c) ==
    IF \E k \in DOMAIN s : s[k] = c
    THEN CHOOSE k \in DOMAIN s : s[k] = c /\ \A j \in 1..(k - 1) : s[j] # c
    ELSE 0

\* str.split(sep): the fields between the separators, empty fields kept
RECURSIVE SplitOn(_, _)
SplitOn(s, c) ==
    LET k == IndexOf(s, c) IN
    IF k = 0 THEN <<s>>
    ELSE <<SubSeq(s, 1, k - 1)>> \o SplitOn(SubSeq(s, k + 1, Len(s)), c)

\* str.split(): the maximal runs of non-blank characters
RECURSIVE SplitWs(_)
SplitWs(s) ==
    IF Len(s) = 0 THEN <<>>
    ELSE IF s[1] = " " THEN SplitWs(Tail(s))
    ELSE LET k == IndexOf(s, " ") IN
         IF k = 0 THEN <<s>>
         ELSE <<SubSeq(s, 1, k - 1)>> \o SplitWs(SubSeq(s, k, Len(s)))

(* ---------------------------- dictionaries ---------------------------- *)

\* a dict is the sequence of its <<key, value>> items in insertion order
DictKeys(d) == {d[k][1] : k \in DOMAIN d}

DictGet(d, key) == d[CHOOSE k \in DOMAIN d : d[k][1] = key][2]

DictSet(d, key, value) ==
    IF key \in DictKeys(d)
    THEN [k \in DOMAIN d |-> IF d[k][1] = key THEN <<key, value>> ELSE d[k]]
    ELSE Append(d, <<key, value>>)

\* one printed line: what it is, the name it is about, the numbers it shows
Line(kind, name, vals) == [kind |-> kind, name |-> name, vals |-> vals]


(* ---------------------------- run_tool -------------------------------- *)

\* line 23
VERBOSE == FALSE

\* repr(cmd), the cache key of line 27
Repr(cmd) == <<"[", cmd[1], ",", cmd[2], "]">>

\* a run_tool that never finds a command in its cache
CacheHit_Never(cache, cmd_str) == FALSE

\* line 28: the cache is consulted before anything is spawned
CacheHit(cache, cmd_str) == cmd_str \in DOMAIN cache

\* lines 40-41: a successful output is stored under the command's key
CacheStore(cache, cmd_str, result_text) ==
    (cmd_str :> result_text) @@ cache

\* lines 26-42.  The result carries the returned text, whether
\* CalledProcessError was raised, the lines printed, and the cache and the
\* number of subprocesses spawned per command afterwards.
run_tool(cmd, cache, spawns) ==
    LET cmd_str == Repr(cmd) IN
    IF CacheHit(cache, cmd_str)
    THEN [raised |-> FALSE, text |-> cache[cmd_str], printed |-> <<>>,
          cache |-> cache, spawned |-> spawns]
    ELSE LET result == tool_result[cmd]
             after == [spawns EXCEPT ![cmd] = @ + 1]
             echo == IF VERBOSE THEN <<Line("command", cmd[2], <<>>)>> ELSE <<>> IN
         IF result.returncode # 0
         THEN [raised |-> TRUE, text |-> <<>>,
               printed |-> echo \o <<Line("command_failed", cmd[2],
                                          <<result.returncode>>)>>,
               cache |-> cache, spawned |-> after]
         ELSE [raised |-> FALSE, text |-> result.stdout, printed |-> echo,
               cache |-> CacheStore(cache, cmd_str, result.stdout), spawned |-> after]

(* ---------------------------- GetSymSizes ----------------------------- *)

\* lines 53-54: section rows, the column-header row, the header marker and
\* empty lines are no symbols
SkipRow(line) ==
    \/ StartsWith(line, P_section)
    \/ EndsWith(line, S_filesize)
    \/ StartsWith(line, P_wasm_header)
    \/ Len(line) = 0

\* line 58-59: the size of a symbol is the file size column
RowSize(fields) == IntOf(fields[3])

\* lines 51-59; raised is the ValueError of the unpacking or of int()
RECURSIVE ParseRows(_, _)
ParseRows(lines, acc) ==
    IF Len(lines) = 0 THEN acc
    ELSE LET line == Head(lines)
             fields == SplitOn(line, ",") IN
         IF SkipRow(line) THEN ParseRows(Tail(lines), acc)
         ELSE IF Len(fields) # 3 \/ ~IntOk(fields[3])
         THEN [acc EXCEPT !.raised = TRUE]
         ELSE ParseRows(Tail(lines),
                        [acc EXCEPT !.total_size = @ + RowSize(fields),
                                    !.sym_sizes = DictSet(@, fields[1], RowSize(fields))])

\* lines 45-62, given the output of the size-report tool
GetSymSizes(wasm, bloaty_output) ==
    LET r == ParseRows(bloaty_output,
                       [sym_sizes |-> <<>>, total_size |-> 0, raised |-> FALSE]) IN
    [raised |-> r.raised, sym_sizes |-> r.sym_sizes,
     printed |-> IF r.raised THEN <<>>
                 ELSE <<Line("symbols", wasm, <<Len(r.sym_sizes), r.total_size>>)>>]

RECURSIVE SumSeq(_)
SumSeq(s) == IF Len(s) = 0 THEN 0 ELSE Head(s) + SumSeq(Tail(s))

\* a denominator that leaves the data symbols out
LinkedSymSize_FunctionsOnly(d) ==
    SumSeq([k \in DOMAIN d |->
              IF StartsWith(d[k][1], P_rodata) \/ StartsWith(d[k][1], P_data)
              THEN 0 ELSE d[k][2]])

\* line 145
LinkedSymSize(d) == SumSeq([k \in DOMAIN d |-> d[k][2]])

(* ---------------------------- GetDataSize ----------------------------- *)

\* line 130
IsMergedSection(name) == name = P_data \/ name = P_rodata

\* lines 133-135
IsDataSym(name) ==
    /\ ~IsMergedSection(name)
    /\ (StartsWith(name, P_data) \/ StartsWith(name, P_rodata) \/ StartsWith(name, P_tdata))

RECURSIVE MergedWarnings(_)
MergedWarnings(d) ==
    IF Len(d) = 0 THEN <<>>
    ELSE (IF IsMergedSection(Head(d)[1])
          THEN <<Line("merged_section_warning", "", <<Head(d)[2]>>)>> ELSE <<>>)
         \o MergedWarnings(Tail(d))

\* lines 126-138
GetDataSize(d) ==
    [data_sym_count |-> SumSeq([k \in DOMAIN d |-> IF IsDataSym(d[k][1]) THEN 1 ELSE 0]),
     data_size |-> SumSeq([k \in DOMAIN d |-> IF IsDataSym(d[k][1]) THEN d[k][2] ELSE 0]),
     printed |-> MergedWarnings(d)]


(* ---------------------------- GetLibFunctions ------------------------- *)

\* lines 67-70
NoNames == [func_names |-> {}, weak_names |-> {}, data_names |-> <<>>,
            local_data_names |-> {}]

\* lines 79-97: one line of a listing
ClassifyLine(acc, line, lib) ==
    LET tokens == SplitWs(line) IN
    IF Len(tokens) # 3 THEN acc
    ELSE LET symtype == Lower(tokens[2])
             name == tokens[3] IN
         IF symtype = <<"t">> THEN [acc EXCEPT !.func_names = @ \cup {name}]
         ELSE IF symtype = <<"w">> THEN [acc EXCEPT !.weak_names = @ \cup {name}]
         ELSE IF symtype = <<"d">>
         THEN IF StartsWith(name, P_dotL)
              THEN [acc EXCEPT !.local_data_names = @ \cup {name}]
              ELSE [acc EXCEPT !.data_names = DictSet(@, name, lib)]
         ELSE acc

\* lines 77-97: the lines of one listing in order
RECURSIVE ClassifyLines(_, _, _)
ClassifyLines(acc, lines, lib) ==
    IF Len(lines) = 0 THEN acc
    ELSE ClassifyLines(ClassifyLine(acc, Head(lines), lib), Tail(lines), lib)

\* lines 71-97: the libs in order, each listing fetched with run_tool; st
\* carries the name sets, the cache, the spawn counts and what was printed
RECURSIVE ClassifyLibs(_, _)
ClassifyLibs(libs, st) ==
    IF Len(libs) = 0 \/ st.raised THEN st
    ELSE LET lib == Head(libs)
             r == run_tool(NmCmd(lib), st.cache, st.spawned) IN
         ClassifyLibs(Tail(libs),
                      [names |-> IF r.raised THEN st.names
                                 ELSE ClassifyLines(st.names, r.text, lib),
                       raised |-> r.raised,
                       printed |-> st.printed \o r.printed,
                       cache |-> r.cache,
                       spawned |-> r.spawned])

\* lines 65-100
GetLibFunctions(libs, cache, spawns) ==
    ClassifyLibs(libs, [names |-> NoNames, raised |-> FALSE, printed |-> <<>>,
                        cache |-> cache, spawned |-> spawns])

(* ---------------------------- GetLibSize ------------------------------ *)

\* lines 112-113
FunctionPart(sym, size, lib_funcs) == IF sym \in lib_funcs THEN size ELSE 0

\* an "if" in place of the "elif" of line 114
WeakPart_NoPriority(sym, size, lib_funcs, lib_weaks) ==
    IF sym \in lib_weaks THEN size ELSE 0

\* lines 112-115: a weak match counts only when there was no strong match
WeakPart(sym, size, lib_funcs, lib_weaks) ==
    IF sym \notin lib_funcs /\ sym \in lib_weaks THEN size ELSE 0

\* line 116
HasDataPrefix(sym) == StartsWith(sym, P_rodata) \/ StartsWith(sym, P_data)

\* line 117
StrippedName(sym) == RemovePrefix(RemovePrefix(sym, P_rodata_dot), P_data_dot)

\* lines 116-119
DataPart(sym, size, lib_datas) ==
    IF HasDataPrefix(sym) /\ StrippedName(sym) \in DictKeys(lib_datas) THEN size ELSE 0

\* lines 116-121
LocalPart(sym, size, lib_datas) ==
    IF /\ HasDataPrefix(sym)
       /\ StrippedName(sym) \notin DictKeys(lib_datas)
       /\ StartsWith(StrippedName(sym), P_dotL)
    THEN size ELSE 0

\* line 122
LibName(libs) == IF Len(libs) = 1 THEN libs[1] ELSE "(aggregate)"

\* lines 103, 106-123, given the name sets of the libs
LibSizeOf(libs, d, n) ==
    [name |-> LibName(libs),
     function |-> SumSeq([k \in DOMAIN d |-> FunctionPart(d[k][1], d[k][2], n.func_names)]),
     weak |-> SumSeq([k \in DOMAIN d |->
                        WeakPart(d[k][1], d[k][2], n.func_names, n.weak_names)]),
     data |-> SumSeq([k \in DOMAIN d |-> DataPart(d[k][1], d[k][2], n.data_names)]),
     local |-> SumSeq([k \in DOMAIN d |-> LocalPart(d[k][1], d[k][2], n.data_names)])]

NoLibSize == [name |-> "", function |-> 0, weak |-> 0, data |-> 0, local |-> 0]

\* lines 105-123
GetLibSize(libs, d, cache, spawns) ==
    LET f == GetLibFunctions(libs, cache, spawns) IN
    [raised |-> f.raised, printed |-> f.printed, cache |-> f.cache,
     spawned |-> f.spawned,
     value |-> IF f.raised THEN NoLibSize ELSE LibSizeOf(libs, d, f.names)]

(* ---------------------------- main: helpers --------------------------- *)

\* lines 141-142
Libs(a) == SubSeq(a, 1, Len(a) - 1)
LinkedWasm(a) == a[Len(a)]

\* lines 156-157 with the ".1f" of the format: tenths of a percent, rounded
\* to the nearest (a quotient exactly halfway is rounded up here)
Percent(s, total) == (2000 * s + total) \div (2 * total)

\* the sort keys of lines 154 and 167
SortKey(by, lib) == IF by = "combined" THEN lib.function + lib.weak ELSE lib.data

\* list.sort(key, reverse=True): descending and stable
RECURSIVE InsertDesc(_, _, _)
InsertDesc(sorted, x, by) ==
    IF Len(sorted) = 0 THEN <<x>>
    ELSE IF SortKey(by, Head(sorted)) >= SortKey(by, x)
    THEN <<Head(sorted)>> \o InsertDesc(Tail(sorted), x, by)
    ELSE <<x>> \o sorted

RECURSIVE SortDesc(_, _)
SortDesc(s, by) ==
    IF Len(s) = 0 THEN <<>>
    ELSE InsertDesc(SortDesc(SubSeq(s, 1, Len(s) - 1), by), s[Len(s)], by)


\* the sum of line 190 in place of the sum of line 174
LibsSizeSum_Combined(ss) == SumSeq([k \in DOMAIN ss |-> ss[k].function + ss[k].weak])

\* line 174
LibsSizeSum(ss) == SumSeq([k \in DOMAIN ss |-> ss[k].function])

\* line 191
LibsDataSize(ss) == SumSeq([k \in DOMAIN ss |-> ss[k].data])

\* a comparison with the strong and weak total of line 189
Disagree_Combined(sum, deduped) == sum # deduped.function + deduped.weak

\* line 186: the warning is printed when the two strong totals differ
Disagree(sum, deduped) == sum # deduped.function

\* lines 159-164
FunctionRow(lib, total) ==
    Line("function_row", lib.name,
         <<lib.function, Percent(lib.function, total),
           lib.function + lib.weak, Percent(lib.function + lib.weak, total)>>)

\* lines 168-171
DataRow(lib, total) ==
    Line("data_row", lib.name, <<lib.data, Percent(lib.data, total)>>)

FunctionHeader == <<Line("function_header", "", <<>>), Line("function_columns", "", <<>>)>>
DataHeader == <<Line("data_header", "", <<>>), Line("data_columns", "", <<>>)>>

\* line 193
StrongLine(deduped, linked) ==
    Line("total_strong", "", <<deduped.function, linked, Percent(deduped.function, linked)>>)

\* lines 189, 194
StrongWeakLine(deduped, linked) ==
    Line("total_strong_weak", "",
         <<deduped.function + deduped.weak, linked,
           Percent(deduped.function + deduped.weak, linked)>>)

\* the data total that line 195 reports
ReportedDataTotal(ss, deduped) == LibsDataSize(ss)

\* line 195
PublicDataLine(ss, deduped, linked, data_total) ==
    Line("total_public_data", "",
         <<ReportedDataTotal(ss, deduped), data_total,
           Percent(ReportedDataTotal(ss, deduped), linked),
           Percent(ReportedDataTotal(ss, deduped), data_total)>>)

\* lines 196-197
LocalDataLine(ss, linked, data_total) ==
    Line("total_local_data", "",
         <<ss[1].local, data_total, Percent(ss[1].local, linked),
           Percent(ss[1].local, data_total)>>)

(* ---------------------------- the run --------------------------------- *)

BloatyResults == {Ok(t) : t \in Tables} \cup {Failed}
NmResultsA == {Ok(t) : t \in ListingsA} \cup {Failed}
NmResultsB == {Ok(t) : t \in ListingsB} \cup {Failed}

\* What the tools answer is fixed for the run.  A command the run cannot
\* issue (a unit not named in args) is given no output: it is never read.
Init ==
    /\ args \in ArgLists
    /\ \E rw \in BloatyResults, ra \in NmResultsA, rb \in NmResultsB :
         tool_result = [c \in Cmds |->
            IF Len(args) > 0 /\ c = BloatyCmd(LinkedWasm(args)) THEN rw
            ELSE IF c = NmCmd("a") /\ "a" \in Range(Libs(args)) THEN ra
            ELSE IF c = NmCmd("b") /\ "b" \in Range(Libs(args)) THEN rb
            ELSE Failed]
    /\ pc = "main"
    /\ err = "none"
    /\ tool_output_cache = [k \in {} |-> <<>>]
    /\ spawned = [c \in Cmds |-> 0]
    /\ sym_sizes = <<>>
    /\ linked_sym_size = 0
    /\ data_sym_count = 0
    /\ data_sym_size = 0
    /\ sizes = <<>>
    /\ libs_size_sum = 0
    /\ deduped_size = NoLibSize
    /\ out = <<>>

\* an uncaught exception ends the run
Raise(exception) == pc' = "error" /\ err' = exception

\* lines 141-142: args[-1] of an empty list raises IndexError
ParseArgs ==
    /\ pc = "main"
    /\ IF Len(args) = 0 THEN Raise("IndexError")
       ELSE pc' = "load_symbols" /\ err' = err
    /\ UNCHANGED <<args, tool_result, tool_output_cache, spawned, sym_sizes,
                   linked_sym_size, data_sym_count, data_sym_size, sizes,
                   libs_size_sum, deduped_size, out>>

\* line 144
LoadSymbols ==
    /\ pc = "load_symbols"
    /\ LET r == run_tool(BloatyCmd(LinkedWasm(args)), tool_output_cache, spawned)
           g == GetSymSizes(LinkedWasm(args), r.text) IN
       /\ tool_output_cache' = r.cache
       /\ spawned' = r.spawned
       /\ IF r.raised
          THEN /\ Raise("CalledProcessError")
               /\ out' = out \o r.printed
               /\ sym_sizes' = sym_sizes
          ELSE IF g.raised
          THEN /\ Raise("ValueError")
               /\ out' = out
               /\ sym_sizes' = sym_sizes
          ELSE /\ pc' = "data_totals" /\ err' = err
               /\ out' = out \o g.printed
               /\ sym_sizes' = g.sym_sizes
    /\ UNCHANGED <<args, tool_result, linked_sym_size, data_sym_count,
                   data_sym_size, sizes, libs_size_sum, deduped_size>>

\* lines 145-150
DataTotals ==
    /\ pc = "data_totals"
    /\ LET g == GetDataSize(sym_sizes) IN
       /\ linked_sym_size' = LinkedSymSize(sym_sizes)
       /\ data_sym_count' = g.data_sym_count
       /\ data_sym_size' = g.data_size
       /\ out' = out \o g.printed
                     \o <<Line("data_symbols", "", <<g.data_sym_count, g.data_size>>)>>
    /\ pc' = "libs_loop"
    /\ UNCHANGED <<args, tool_result, err, tool_output_cache, spawned, sym_sizes,
                   sizes, libs_size_sum, deduped_size>>

\* lines 152-153: one iteration of the loop over the libs
UnitSize ==
    /\ pc = "libs_loop"
    /\ Len(sizes) < Len(Libs(args))
    /\ LET lib == Libs(args)[Len(sizes) + 1]
           r == GetLibSize(<<lib>>, sym_sizes, tool_output_cache, spawned) IN
       /\ tool_output_cache' = r.cache
       /\ spawned' = r.spawned
       /\ out' = out \o r.printed
       /\ IF r.raised
          THEN Raise("CalledProcessError") /\ sizes' = sizes
          ELSE pc' = pc /\ err' = err /\ sizes' = Append(sizes, r.value)
    /\ UNCHANGED <<args, tool_result, sym_sizes, linked_sym_size, data_sym_count,
                   data_sym_size, libs_size_sum, deduped_size>>

\* lines 154-164: s / linked_sym_size raises ZeroDivisionError at the first row
FunctionTable ==
    /\ pc = "libs_loop"
    /\ Len(sizes) = Len(Libs(args))
    /\ LET sorted == SortDesc(sizes, "combined") IN
       /\ sizes' = sorted
       /\ IF Len(sorted) > 0 /\ linked_sym_size = 0
          THEN Raise("ZeroDivisionError") /\ out' = out \o FunctionHeader
          ELSE /\ pc' = "data_table" /\ err' = err
               /\ out' = out \o FunctionHeader
                    \o [k \in DOMAIN sorted |-> FunctionRow(sorted[k], linked_sym_size)]
    /\ UNCHANGED <<args, tool_result, tool_output_cache, spawned, sym_sizes,
                   linked_sym_size, data_sym_count, data_sym_size,
                   libs_size_sum, deduped_size>>

\* lines 167-171
DataTable ==
    /\ pc = "data_table"
    /\ LET sorted == SortDesc(sizes, "data") IN
       /\ sizes' = sorted
       /\ IF Len(sorted) > 0 /\ data_sym_size = 0
          THEN Raise("ZeroDivisionError") /\ out' = out \o DataHeader
          ELSE /\ pc' = "dedupe" /\ err' = err
               /\ out' = out \o DataHeader
                    \o [k \in DOMAIN sorted |-> DataRow(sorted[k], data_sym_size)]
    /\ UNCHANGED <<args, tool_result, tool_output_cache, spawned, sym_sizes,
                   linked_sym_size, data_sym_count, data_sym_size,
                   libs_size_sum, deduped_size>>

\* lines 174-191
Dedupe ==
    /\ pc = "dedupe"
    /\ LET sum == LibsSizeSum(sizes)
           r == GetLibSize(Libs(args), sym_sizes, tool_output_cache, spawned) IN
       /\ libs_size_sum' = sum
       /\ tool_output_cache' = r.cache
       /\ spawned' = r.spawned
       /\ IF r.raised
          THEN /\ Raise("CalledProcessError")
               /\ out' = out \o r.printed
               /\ deduped_size' = deduped_size
          ELSE /\ pc' = "summary" /\ err' = err
               /\ deduped_size' = r.value
               /\ out' = out \o r.printed \o
                     (IF Disagree(sum, r.value)
                      THEN <<Line("warning", "", <<sum, r.value.function>>)>>
                      ELSE <<>>)
    /\ UNCHANGED <<args, tool_result, sym_sizes, linked_sym_size, data_sym_count,
                   data_sym_size, sizes>>

\* lines 193-197, then the exit of line 200
Summary ==
    /\ pc = "summary"
    /\ LET l12 == <<StrongLine(deduped_size, linked_sym_size),
                    StrongWeakLine(deduped_size, linked_sym_size)>>
           l3 == <<PublicDataLine(sizes, deduped_size, linked_sym_size, data_sym_size)>>
           l4 == <<LocalDataLine(sizes, linked_sym_size, data_sym_size)>> IN
       IF linked_sym_size = 0
       THEN Raise("ZeroDivisionError") /\ out' = out
       ELSE IF data_sym_size = 0
       THEN Raise("ZeroDivisionError") /\ out' = out \o l12
       ELSE IF Len(sizes) = 0
       THEN Raise("IndexError") /\ out' = out \o l12 \o l3
       ELSE pc' = "done" /\ err' = err /\ out' = out \o l12 \o l3 \o l4
    /\ UNCHANGED <<args, tool_result, tool_output_cache, spawned, sym_sizes,
                   linked_sym_size, data_sym_count, data_sym_size, sizes,
                   libs_size_sum, deduped_size>>

Next ==
    \/ ParseArgs
    \/ LoadSymbols
    \/ DataTotals
    \/ UnitSize
    \/ FunctionTable
    \/ DataTable
    \/ Dedupe
    \/ Summary

Spec == Init /\ [][Next]_vars


(* ---------------------------- reading a state ------------------------- *)

Printed(kind) == \E k \in DOMAIN out : out[k].kind = kind
PrintedLines(kind) == {out[k] : k \in {j \in DOMAIN out : out[j].kind = kind}}
Warned == Printed("warning")
Finished == pc \in {"done", "error"}

\* the names of the symbol table and the total size of a set of them
TableNames == DictKeys(sym_sizes)
RECURSIVE SizeOfNames(_)
SizeOfNames(S) ==
    IF S = {} THEN 0
    ELSE LET n == CHOOSE x \in S : TRUE IN
         DictGet(sym_sizes, n) + SizeOfNames(S \ {n})

\* the units whose listing has been fetched, and their classification sets
Classified(u) == Repr(NmCmd(u)) \in DOMAIN tool_output_cache
NamesOf(u) == GetLibFunctions(<<u>>, tool_output_cache, spawned).names
StrongOf(u) == NamesOf(u).func_names
WeakOf(u) == NamesOf(u).weak_names
DataOf(u) == DictKeys(NamesOf(u).data_names)
GroupStrong(us) == UNION {StrongOf(u) : u \in Range(us)}
GroupWeak(us) == UNION {WeakOf(u) : u \in Range(us)}
AggregateComputed == pc \in {"summary", "done"}


Succeeds(c) == tool_result[c].returncode = 0

(* ---------------------------- C1 -------------------------------------- *)

RowAttributes(row, us) ==
    /\ row.function = SizeOfNames(TableNames \cap GroupStrong(us))
    /\ row.weak = SizeOfNames((TableNames \cap GroupWeak(us)) \ GroupStrong(us))
    /\ row.function + row.weak
         = SizeOfNames(TableNames \cap (GroupStrong(us) \cup GroupWeak(us)))

\* C1: every row GetLibSize returns, for a single unit or for the aggregate of
\* all units, has as function total the sizes of the table's names in the
\* group's strong set, as weak total the sizes of the table's names in its
\* weak set and not in its strong set, so that the two add up to the sizes of
\* the table's names in the union of the two sets.
C1_StrongBeforeWeak ==
    /\ \A k \in DOMAIN sizes : RowAttributes(sizes[k], <<sizes[k].name>>)
    /\ AggregateComputed => RowAttributes(deduped_size, Libs(args))

\* a finished run whose aggregate has a sized name both strong and weak, and
\* another name that is only weak
C1_Witness ==
    /\ pc = "done"
    /\ Len(Libs(args)) = 2
    /\ \E n \in TableNames \cap GroupStrong(Libs(args)) \cap GroupWeak(Libs(args)) :
          DictGet(sym_sizes, n) > 0
    /\ deduped_size.weak > 0
    /\ deduped_size.function > 0

(* ---------------------------- C2 -------------------------------------- *)

\* units a and b both define qux weakly, nobody defines it strongly, it is
\* the only weak name of either that the table has, and its size is 10
SharedWeakQux ==
    /\ pc = "done"
    /\ args = <<"a", "b", Wasm>>
    /\ TableNames \cap WeakOf("a") = {N_qux}
    /\ TableNames \cap WeakOf("b") = {N_qux}
    /\ N_qux \notin GroupStrong(Libs(args))
    /\ DictGet(sym_sizes, N_qux) = 10

WeakCountedOnce ==
    /\ \A k \in DOMAIN sizes : sizes[k].weak = 10
    /\ \A l \in PrintedLines("function_row") : l.vals[3] - l.vals[1] = 10
    /\ deduped_size.weak = 10

\* a name of the table, of size above 0, that both units define strongly
StrongShared ==
    \E n \in TableNames \cap StrongOf("a") \cap StrongOf("b") : DictGet(sym_sizes, n) > 0

\* C2 as stated: with qux weak in both units, each unit's row has weak total
\* 10, the aggregate has weak total 10, and the warning is printed.
C2_Original == SharedWeakQux => (WeakCountedOnce /\ Warned)

\* C2 amended: with qux weak in both units, each unit's row has weak total 10
\* and the aggregate has weak total 10; the warning is printed in that run
\* exactly when the two units also share a strongly defined sized name (the
\* shared weak name alone prints none).
C2_SharedWeakNoWarning ==
    SharedWeakQux => (WeakCountedOnce /\ (Warned <=> StrongShared))

C2_Witness == SharedWeakQux /\ ~Warned /\ deduped_size.function = 0

(* ---------------------------- C3 -------------------------------------- *)

\* the per-unit strong totals, unit by unit in argument order
PerUnitStrongSum ==
    SumSeq([k \in DOMAIN Libs(args) |->
              SizeOfNames(TableNames \cap StrongOf(Libs(args)[k]))])

AggregateStrong == SizeOfNames(TableNames \cap GroupStrong(Libs(args)))

SummaryPrinted ==
    /\ Printed("total_strong")
    /\ Printed("total_strong_weak")
    /\ Printed("total_public_data")
    /\ Printed("total_local_data")

\* C3: once the run has reached the summary, the warning has been printed if
\* and only if the per-unit strong totals do not add up to the aggregate's
\* strong total; a run that printed the warning has not raised, and when it
\* is done it has printed all the summary lines.
C3_WarningIffStrongMismatch ==
    /\ AggregateComputed => (Warned <=> PerUnitStrongSum # AggregateStrong)
    /\ Warned => (pc \in {"summary", "done"} /\ err = "none")
    /\ (Warned /\ pc = "done") => SummaryPrinted

C3_Witness == pc = "done" /\ Warned /\ SummaryPrinted


(* ---------------------------- C4 -------------------------------------- *)

\* the size report has been read and it has no sized symbol
EmptySymbolTable ==
    /\ pc \notin {"main", "load_symbols"}
    /\ Repr(BloatyCmd(Wasm)) \in DOMAIN tool_output_cache
    /\ ~GetSymSizes(Wasm, tool_output_cache[Repr(BloatyCmd(Wasm))]).raised
    /\ Len(sym_sizes) = 0

\* every symbol dump the run asks for succeeds
DumpsSucceed == \A u \in Range(Libs(args)) : Succeeds(NmCmd(u))

\* C4: with an empty symbol table and at least one unit the run does not end
\* in a division by zero: a finished run is done and has printed its summary.
C4_EmptyTableNoDivisionByZero ==
    (EmptySymbolTable /\ Len(Libs(args)) >= 1 /\ DumpsSucceed)
        => (err # "ZeroDivisionError" /\ (Finished => (pc = "done" /\ SummaryPrinted)))

(* ---------------------------- C5 -------------------------------------- *)

\* the two denominators, from the table
AllSymbolsSize == SizeOfNames(TableNames)
DataSymbolsSize ==
    SizeOfNames({n \in TableNames :
                   /\ n \notin {P_data, P_rodata}
                   /\ (StartsWith(n, P_data) \/ StartsWith(n, P_rodata)
                       \/ StartsWith(n, P_tdata))})

\* C5: every size printed next to a percentage is between 0 and the
\* percentage's denominator: in the function table the strong size and the
\* strong and weak size are at most the size of all symbols, in the data
\* table the data size is at most the size of the data symbols.
C5_SizesWithinDenominator ==
    /\ \A l \in PrintedLines("function_row") :
          /\ 0 <= l.vals[1] /\ l.vals[1] <= AllSymbolsSize
          /\ 0 <= l.vals[3] /\ l.vals[3] <= AllSymbolsSize
    /\ \A l \in PrintedLines("data_row") :
          0 <= l.vals[1] /\ l.vals[1] <= DataSymbolsSize

(* ---------------------------- C6 -------------------------------------- *)

\* the table has foo: 100, bar: 50, .rodata.baz: 20 and nothing else; unit a,
\* the only unit, has strong {foo}, weak {} and global data {baz}; the two
\* tables have been printed
ScenarioA ==
    /\ args = <<"a", Wasm>>
    /\ pc \in {"dedupe", "summary", "done"}
    /\ TableNames = {N_foo, N_bar, P_rodata_dot \o N_baz}
    /\ DictGet(sym_sizes, N_foo) = 100
    /\ DictGet(sym_sizes, N_bar) = 50
    /\ DictGet(sym_sizes, P_rodata_dot \o N_baz) = 20
    /\ StrongOf("a") = {N_foo}
    /\ WeakOf("a") = {}
    /\ DataOf("a") = {N_baz}

\* the row of unit a shows this strong size, this percentage (in tenths) and
\* this data size
RowOfA(function, tenths, data) ==
    /\ \E l \in PrintedLines("function_row") :
          l.name = "a" /\ l.vals[1] = function /\ l.vals[2] = tenths
    /\ \E l \in PrintedLines("data_row") : l.name = "a" /\ l.vals[1] = data

\* C6 as stated: in scenario A the row of a has function total 100 and data
\* total 20, and the function percentage is 100 of 150, 66.7%.
C6_Original == ScenarioA => RowOfA(100, 667, 20)

\* C6 amended: in scenario A the row of a has function total 100 and data
\* total 20, and the function percentage is 100 of 170 (every sized symbol,
\* the data symbol included), 58.8%.
C6_ScenarioA == ScenarioA => (RowOfA(100, 588, 20) /\ linked_sym_size = 170)

C6_Witness == ScenarioA /\ pc = "done"

(* ---------------------------- C7 -------------------------------------- *)

\* C7: the strong set and the weak set the classifier returns for a unit are
\* disjoint.
C7_StrongWeakDisjoint ==
    \A u \in Units : Classified(u) => StrongOf(u) \cap WeakOf(u) = {}

(* ---------------------------- C8 -------------------------------------- *)

\* no unit is named twice on the command line
DistinctUnits == Cardinality(Range(Libs(args))) = Len(Libs(args))

\* C8: over distinct units, the public-data total of the summary is the
\* aggregate group's data total, in which a symbol that two units define
\* counts once.
C8_PublicDataIsAggregate ==
    DistinctUnits =>
        \A l \in PrintedLines("total_public_data") : l.vals[1] = deduped_size.data

(* ---------------------------- C9 -------------------------------------- *)

NothingSpawned == \A c \in Cmds : spawned[c] = 0

\* C9: with fewer than two arguments no tool is run, nothing is printed, and
\* the run ends with an error.
C9_UsageError ==
    Len(args) < 2 => (/\ NothingSpawned
                      /\ out = <<>>
                      /\ pc # "done"
                      /\ (Finished => err # "none"))

(* ---------------------------- C10 ------------------------------------- *)

\* C10: a command is spawned at most once; the cache holds exactly the
\* outputs of the spawned commands that succeeded; a spawned command that
\* failed has ended the run with CalledProcessError; a finished run over n
\* distinct units has spawned the symbol-dump tool once for each of them, n
\* times in all, and the size-report tool once.
C10_SpawnedOncePerCommand ==
    /\ \A c \in Cmds :
          /\ spawned[c] <= 1
          /\ Repr(c) \in DOMAIN tool_output_cache <=> (spawned[c] = 1 /\ Succeeds(c))
          /\ Repr(c) \in DOMAIN tool_output_cache
                => tool_output_cache[Repr(c)] = tool_result[c].stdout
          /\ (spawned[c] = 1 /\ ~Succeeds(c))
                => (pc = "error" /\ err = "CalledProcessError")
    /\ pc = "done" =>
          /\ \A u \in Units : spawned[NmCmd(u)] = IF u \in Range(Libs(args)) THEN 1 ELSE 0
          /\ SumSeq([k \in 1..Len(UnitOrder) |-> spawned[NmCmd(UnitOrder[k])]])
                = Cardinality(Range(Libs(args)))
          /\ spawned[BloatyCmd(Wasm)] = 1
          /\ \A p \in Paths : spawned[NmCmd(Wasm)] = 0 /\ (p # Wasm => spawned[BloatyCmd(p)] = 0)

\* a finished run over two distinct units, each classified alone and again in
\* the aggregate
C10_Witness ==
    /\ pc = "done"
    /\ Cardinality(Range(Libs(args))) = 2
    /\ spawned[NmCmd("a")] = 1
    /\ spawned[NmCmd("b")] = 1

====
